---- MODULE Spec2Model ----
(***************************************************************************)
(* The notebook 01_introduction_to_diffusers.ipynb as a state machine: the *)
(* training cell (scheduler construction, optimizer, the epoch/batch loop),*)
(* the optional pipeline cell, and the hand-written sampling loop.  The    *)
(* notebook runs as one sequential thread; pc is the statement about to    *)
(* run.  Tensors are kept as provenance terms (which call produced them    *)
(* from which arguments), the global torch generator as the number of      *)
(* draws taken from it, the U-Net parameters as the number of optimizer    *)
(* updates applied.                                                        *)
(***************************************************************************)
EXTENDS Integers, Sequences, FiniteSets

\* ------------------------------------------------------------------ bounds
\* num_train_timesteps is 1000 in the notebook; the model keeps it small.
num_train_timesteps == 4
\* range(30) in the notebook.
NumEpochs == 5
\* 1000 images in the dataset the notebook loads.
DatasetSize == 3
\* BATCH_SIZE = 64 in the notebook.
BATCH_SIZE == 2

\* ------------------------------------------------------- program constants
\* (epoch + 1) % 5 == 0
ReportEvery == 5
\* xb = next(iter(train_dataloader))["images"][:8]; torch.linspace(0, 999, 8)
PreviewBatch == 8

VARIABLES
    pc,                  \* statement of the notebook about to run
    sch_timesteps,       \* noise_scheduler.timesteps
    num_inference_steps, \* noise_scheduler.num_inference_steps (0: None)
    sch_arrays,          \* noise_scheduler's betas, alphas, alphas_cumprod
    temp_arrays,         \* noise_scheduler_temp's arrays
    device,              \* torch.device("cuda" if available else "cpu")
    noisy_xb,            \* the preview cell's noised batch
    rng,                 \* draws taken from the global torch generator
    params,              \* optimizer updates applied to model.parameters()
    grads,               \* .grad buffers: the losses accumulated in them
    applied,             \* the gradient the last optimizer.step() applied
    epoch, step,         \* the training loop's counters
    batchIdx,            \* batches the epoch's dataloader iterator has yielded
    clean_images, noise, bs, timesteps, noisy_images, noise_pred, loss,
    losses,              \* the running loss log
    stepsDone,           \* completed training-loop bodies
    lastReport,          \* the losses the last epoch report averaged
    sample, residual, i, t,   \* the sampling loop's variables
    modelTs, stepTs,     \* timesteps passed to model(...) / scheduler.step(...)
    lastStep             \* the last scheduler.step call of the sampling loop

schedulerVars == <<sch_timesteps, num_inference_steps>>
trainLocals == <<epoch, step, batchIdx, clean_images, noise, bs, timesteps, noisy_images,
                 noise_pred, loss>>
sampleVars == <<sample, residual, i, t, modelTs, stepTs, lastStep>>
arrayVars == <<sch_arrays, temp_arrays, device, noisy_xb>>
vars == <<pc, sch_timesteps, num_inference_steps, sch_arrays, temp_arrays,
          device, noisy_xb, rng, params, grads, applied,
          epoch, step, batchIdx, clean_images, noise, bs, timesteps,
          noisy_images, noise_pred, loss, losses, stepsDone, lastReport,
          sample, residual, i, t, modelTs, stepTs, lastStep>>

None == [kind |-> "none"]

\* ------------------------------------------------------------- scheduler
\* DDPMScheduler.__init__: timesteps = arange(0, num_train_timesteps)[::-1]
InitTimesteps == [k \in 1..num_train_timesteps |-> num_train_timesteps - k]

\* DDPMScheduler.set_timesteps(n), timestep_spacing "leading":
\* step_ratio = num_train_timesteps // n; (arange(0, n) * step_ratio)[::-1]
SetTimesteps(n) == [k \in 1..n |-> (n - k) * (num_train_timesteps \div n)]

\* image_pipe() with no argument: num_inference_steps defaults to the
\* pipeline's 1000, the scheduler's num_train_timesteps.
PipelineStepsFewer == num_train_timesteps - 1
PipelineSteps == num_train_timesteps

\* ------------------------------------------------------- schedule arrays
\* Floating-point values are kept in fixed point: v stands for v / Scale.
Scale == 100 * 100

\* DDPMScheduler's defaults beta_start = 0.0001, beta_end = 0.02
DefaultBetaStart == Scale \div 10000
DefaultBetaEnd == (2 * Scale) \div 100
\* DDPMScheduler(..., beta_start=0.001, beta_end=0.004)
TempBetaStart == Scale \div 1000
TempBetaEnd == (4 * Scale) \div 1000

\* torch.linspace(beta_start, beta_end, num_train_timesteps)
LinearBetas(beta_start, beta_end) ==
    [k \in 1..num_train_timesteps |->
        IF num_train_timesteps = 1 THEN beta_start
        ELSE beta_start
             + ((k - 1) * (beta_end - beta_start)) \div (num_train_timesteps - 1)]

\* pi / 2
HalfPi == (15708 * Scale) \div 10000

\* x^(2n) / (2n)!, from the term before it
RECURSIVE CosTerm(_, _)
CosTerm(x2, n) ==
    IF n = 0 THEN Scale
    ELSE ((CosTerm(x2, n - 1) * x2) \div Scale) \div ((2 * n - 1) * (2 * n))

\* math.cos(x) for x in [0, pi/2], by its series
Cos(x) ==
    LET x2 == (x * x) \div Scale
    IN  CosTerm(x2, 0) - CosTerm(x2, 1) + CosTerm(x2, 2) - CosTerm(x2, 3)
        + CosTerm(x2, 4) - CosTerm(x2, 5) + CosTerm(x2, 6)

\* betas_for_alpha_bar: alpha_bar_fn(j / num_train_timesteps)
\*   = cos((t + 0.008) / 1.008 * pi / 2) ** 2
AlphaBarFn(j) ==
    LET x == ((1000 * j + 8 * num_train_timesteps) * HalfPi)
             \div (1008 * num_train_timesteps)
        c == Cos(x)
    IN  (c * c) \div Scale

\* betas_for_alpha_bar's max_beta = 0.999
MaxBetaUncapped == Scale
MaxBeta == (999 * Scale) \div 1000

\* beta_schedule = "squaredcos_cap_v2":
\* min(1 - alpha_bar_fn(t2) / alpha_bar_fn(t1), max_beta)
CosineBetas ==
    [k \in 1..num_train_timesteps |->
        LET b == Scale - (AlphaBarFn(k) * Scale) \div AlphaBarFn(k - 1)
        IN  IF b < MaxBeta THEN b ELSE MaxBeta]

\* torch.cumprod(alphas, dim=0)
RECURSIVE CumProd(_, _)
CumProd(a, k) ==
    IF k = 1 THEN a[1] ELSE (CumProd(a, k - 1) * a[k]) \div Scale

\* DDPMScheduler.__init__: betas, alphas = 1.0 - betas, alphas_cumprod; the
\* arrays are created on the cpu
NewSchedule(b) ==
    LET a == [k \in DOMAIN b |-> Scale - b[k]]
    IN  [kind |-> "schedule", betas |-> b, alphas |-> a,
         alphas_cumprod |-> [k \in DOMAIN b |-> CumProd(a, k)],
         device |-> "cpu"]

\* the three schedulers the notebook constructs
DefaultSchedule == NewSchedule(LinearBetas(DefaultBetaStart, DefaultBetaEnd))
TempLinearSchedule == NewSchedule(LinearBetas(TempBetaStart, TempBetaEnd))
CosineSchedule == NewSchedule(CosineBetas)

\* add_noise(original_samples, noise, timesteps): one noisy item per sample,
\* sqrt(acp[t]) * x + sqrt(1 - acp[t]) * noise.
\* acp: the alphas_cumprod[timesteps] it looks up.
AddNoise(x, n, ts) ==
    [kind |-> "noisy", clean |-> x, noise |-> n, timesteps |-> ts,
     acp |-> [k \in DOMAIN ts |-> sch_arrays.alphas_cumprod[ts[k] + 1]]]

\* add_noise keeps its alphas_cumprod on the samples' device:
\* self.alphas_cumprod = self.alphas_cumprod.to(device=original_samples.device)
MoveToDeviceInPlaceSqrt(arr, dev) ==
    [arr EXCEPT !.device = dev,
                !.alphas_cumprod = [k \in DOMAIN @ |-> (@[k] * @[k]) \div Scale]]
MoveToDevice(arr, dev) == [arr EXCEPT !.device = dev]

\* scheduler.step draws variance noise only when t > 0.
StepDrawsNoiseAlways(ts) == TRUE
StepDrawsNoise(ts) == ts > 0

\* scheduler.step(model_output, timestep, sample): prev_sample and the
\* generator after the call.  noise = 0: no variance noise was added.
Step(model_output, ts, smp, gen) ==
    LET draws == StepDrawsNoise(ts)
    IN  [prev_sample |-> [kind |-> "prev", from |-> smp, out |-> model_output,
                          t |-> ts, noise |-> IF draws THEN gen + 1 ELSE 0],
         rng |-> IF draws THEN gen + 1 ELSE gen]

\* ------------------------------------------------------------------ model
\* model(x, timesteps): the U-Net's prediction for these inputs under the
\* current parameters.
Model(x, ts, p) == [kind |-> "pred", of |-> x, t |-> ts, params |-> p]

\* ------------------------------------------------------------- dataloader
\* len(train_dataloader), drop_last = False
NumBatches == (DatasetSize + BATCH_SIZE - 1) \div BATCH_SIZE

\* the number of images in batch number b (0-based)
BatchSize(b) ==
    IF (b + 1) * BATCH_SIZE <= DatasetSize THEN BATCH_SIZE
    ELSE DatasetSize - b * BATCH_SIZE

\* torch.randint(low, high, ...): high is exclusive
RandintRangeInclusive(low, high) == low..high
RandintRange(low, high) == low..(high - 1)

\* torch.linspace(0, 999, 8).long()
LinspaceTimesteps ==
    [k \in 1..PreviewBatch |->
        ((k - 1) * (num_train_timesteps - 1)) \div (PreviewBatch - 1)]

\* losses.append(loss.item())
LogAppendReplace(log, x) == <<x>>
LogAppend(log, x) == Append(log, x)

\* losses[-len(train_dataloader):]
LastEpochLosses(log) ==
    IF Len(log) <= NumBatches THEN log
    ELSE SubSeq(log, Len(log) - NumBatches + 1, Len(log))

\* -------------------------------------------------------------------- Init
\* The state when noise_scheduler = DDPMScheduler(num_train_timesteps=1000) has
\* run, on either kind of machine.
Init ==
    /\ pc = "temp_linear"
    /\ device \in {"cpu", "cuda"}
    /\ sch_arrays = DefaultSchedule
    /\ temp_arrays = None
    /\ noisy_xb = None
    /\ sch_timesteps = InitTimesteps
    /\ num_inference_steps = 0
    /\ rng = 0
    /\ params = 0
    /\ grads = {}
    /\ applied = {}
    /\ epoch = 0
    /\ step = 0
    /\ batchIdx = 0
    /\ clean_images = None
    /\ noise = 0
    /\ bs = 0
    /\ timesteps = None
    /\ noisy_images = None
    /\ noise_pred = None
    /\ loss = None
    /\ losses = <<>>
    /\ stepsDone = 0
    /\ lastReport = <<>>
    /\ sample = None
    /\ residual = None
    /\ i = 0
    /\ t = 0
    /\ modelTs = <<>>
    /\ stepTs = <<>>
    /\ lastStep = None

\* ------------------------------------------------------- scheduler cells
\* noise_scheduler_temp = DDPMScheduler(num_train_timesteps=1000,
\*                                      beta_start=0.001, beta_end=0.004)
ConstructTempLinear ==
    /\ pc = "temp_linear"
    /\ temp_arrays' = TempLinearSchedule
    /\ pc' = "temp_cosine"
    /\ UNCHANGED <<sch_arrays, device, noisy_xb, schedulerVars, rng, params,
                   grads, applied, trainLocals, losses, stepsDone, lastReport,
                   sampleVars>>

\* noise_scheduler_temp = DDPMScheduler(num_train_timesteps=1000,
\*                                      beta_schedule='squaredcos_cap_v2')
ConstructTempCosine ==
    /\ pc = "temp_cosine"
    /\ temp_arrays' = CosineSchedule
    /\ pc' = "preview"
    /\ UNCHANGED <<sch_arrays, device, noisy_xb, schedulerVars, rng, params,
                   grads, applied, trainLocals, losses, stepsDone, lastReport,
                   sampleVars>>

\* the first PreviewBatch images of a batch, on the device
xb == [kind |-> "batch", epoch |-> -1, index |-> 0, size |-> PreviewBatch]

\* timesteps = torch.linspace(0, 999, 8).long(); noise = torch.randn_like(xb);
\* noisy_xb = noise_scheduler.add_noise(xb, noise, timesteps)
PreviewAddNoise ==
    /\ pc = "preview"
    /\ timesteps' = LinspaceTimesteps
    /\ noise' = rng + 1
    /\ rng' = rng + 1
    /\ noisy_xb' = AddNoise(xb, rng + 1, LinspaceTimesteps)
    /\ sch_arrays' = MoveToDevice(sch_arrays, device)
    /\ pc' = "train_setup"
    /\ UNCHANGED <<temp_arrays, device, schedulerVars, params, grads, applied,
                   epoch, step, batchIdx, clean_images, bs, noisy_images,
                   noise_pred, loss, losses, stepsDone, lastReport, sampleVars>>

\* noise_scheduler = DDPMScheduler(num_train_timesteps=1000,
\*     beta_schedule="squaredcos_cap_v2"); optimizer = ...; losses = []
TrainSetup ==
    /\ pc = "train_setup"
    /\ sch_arrays' = CosineSchedule
    /\ sch_timesteps' = InitTimesteps
    /\ num_inference_steps' = 0
    /\ losses' = <<>>
    /\ pc' = "epoch_head"
    /\ UNCHANGED <<temp_arrays, device, noisy_xb, rng, params, grads, applied,
                   trainLocals, stepsDone, lastReport, sampleVars>>

\* ---------------------------------------------------------- training loop
\* for epoch in range(30): / for step, batch in enumerate(train_dataloader):
\* a new shuffled iterator takes its seed from the global generator.
EpochStart ==
    /\ pc = "epoch_head"
    /\ epoch < NumEpochs
    /\ rng' = rng + 1
    /\ batchIdx' = 0
    /\ pc' = "batch_head"
    /\ UNCHANGED <<arrayVars, schedulerVars, params, grads, applied, epoch, step,
                   clean_images, noise, bs, timesteps, noisy_images, noise_pred,
                   loss, losses, stepsDone, lastReport, sampleVars>>

\* range(30) is exhausted
TrainingDone ==
    /\ pc = "epoch_head"
    /\ epoch >= NumEpochs
    /\ pc' = "trained"
    /\ UNCHANGED <<arrayVars, schedulerVars, rng, params, grads, applied, trainLocals,
                   losses, stepsDone, lastReport, sampleVars>>

\* the next batch; clean_images = batch["images"].to(device)
NextBatch ==
    /\ pc = "batch_head"
    /\ batchIdx < NumBatches
    /\ step' = batchIdx
    /\ batchIdx' = batchIdx + 1
    /\ clean_images' = [kind |-> "batch", epoch |-> epoch, index |-> batchIdx,
                        size |-> BatchSize(batchIdx)]
    /\ pc' = "draw_noise"
    /\ UNCHANGED <<arrayVars, schedulerVars, rng, params, grads, applied, epoch, noise, bs,
                   timesteps, noisy_images, noise_pred, loss, losses, stepsDone,
                   lastReport, sampleVars>>

\* the dataloader is exhausted: the epoch's report, then the next epoch
EpochEnd ==
    /\ pc = "batch_head"
    /\ batchIdx >= NumBatches
    /\ lastReport' = IF (epoch + 1) % ReportEvery = 0
                     THEN LastEpochLosses(losses) ELSE lastReport
    /\ epoch' = epoch + 1
    /\ pc' = "epoch_head"
    /\ UNCHANGED <<arrayVars, schedulerVars, rng, params, grads, applied, step, batchIdx,
                   clean_images, noise, bs, timesteps, noisy_images, noise_pred,
                   loss, losses, stepsDone, sampleVars>>

\* noise = torch.randn(clean_images.shape); bs = clean_images.shape[0]
DrawNoise ==
    /\ pc = "draw_noise"
    /\ noise' = rng + 1
    /\ rng' = rng + 1
    /\ bs' = clean_images.size
    /\ pc' = "draw_timesteps"
    /\ UNCHANGED <<arrayVars, schedulerVars, params, grads, applied, epoch, step, batchIdx,
                   clean_images, timesteps, noisy_images, noise_pred, loss,
                   losses, stepsDone, lastReport, sampleVars>>

\* timesteps = torch.randint(0, noise_scheduler.num_train_timesteps, (bs,))
DrawTimesteps ==
    /\ pc = "draw_timesteps"
    /\ \E ts \in [1..bs -> RandintRange(0, num_train_timesteps)] :
          timesteps' = ts
    /\ rng' = rng + 1
    /\ pc' = "add_noise"
    /\ UNCHANGED <<arrayVars, schedulerVars, params, grads, applied, epoch, step, batchIdx,
                   clean_images, noise, bs, noisy_images, noise_pred, loss,
                   losses, stepsDone, lastReport, sampleVars>>

\* noisy_images = noise_scheduler.add_noise(clean_images, noise, timesteps)
AddNoiseCall ==
    /\ pc = "add_noise"
    /\ noisy_images' = AddNoise(clean_images, noise, timesteps)
    /\ sch_arrays' = MoveToDevice(sch_arrays, device)
    /\ pc' = "model_pred"
    /\ UNCHANGED <<temp_arrays, device, noisy_xb, schedulerVars, rng, params,
                   grads, applied, epoch, step, batchIdx, clean_images, noise,
                   bs, timesteps, noise_pred, loss, losses, stepsDone,
                   lastReport, sampleVars>>

\* noise_pred = model(noisy_images, timesteps, return_dict=False)[0]
ModelPredict ==
    /\ pc = "model_pred"
    /\ noise_pred' = Model(noisy_images, timesteps, params)
    /\ pc' = "loss"
    /\ UNCHANGED <<arrayVars, schedulerVars, rng, params, grads, applied, epoch, step,
                   batchIdx, clean_images, noise, bs, timesteps, noisy_images, loss,
                   losses, stepsDone, lastReport, sampleVars>>

\* loss = F.mse_loss(noise_pred, noise)
ComputeLoss ==
    /\ pc = "loss"
    /\ loss' = [kind |-> "loss", epoch |-> epoch, step |-> step]
    /\ pc' = "backward"
    /\ UNCHANGED <<arrayVars, schedulerVars, rng, params, grads, applied, epoch, step,
                   batchIdx, clean_images, noise, bs, timesteps, noisy_images, noise_pred,
                   losses, stepsDone, lastReport, sampleVars>>

\* loss.backward(loss): gradients are added to the .grad buffers
Backward ==
    /\ pc = "backward"
    /\ grads' = grads \cup {loss}
    /\ pc' = "log"
    /\ UNCHANGED <<arrayVars, schedulerVars, rng, params, applied, trainLocals, losses,
                   stepsDone, lastReport, sampleVars>>

\* losses.append(loss.item())
LogLoss ==
    /\ pc = "log"
    /\ losses' = LogAppend(losses, loss)
    /\ pc' = "opt_step"
    /\ UNCHANGED <<arrayVars, schedulerVars, rng, params, grads, applied, trainLocals,
                   stepsDone, lastReport, sampleVars>>

\* optimizer.step()
OptimizerStep ==
    /\ pc = "opt_step"
    /\ params' = params + 1
    /\ applied' = grads
    /\ pc' = "zero_grad"
    /\ UNCHANGED <<arrayVars, schedulerVars, rng, grads, trainLocals, losses, stepsDone,
                   lastReport, sampleVars>>

\* the .grad buffers after optimizer.zero_grad()
ZeroedGradsKept(g) == g
ZeroedGrads(g) == {}

\* optimizer.zero_grad(): the loop body is complete
ZeroGrad ==
    /\ pc = "zero_grad"
    /\ grads' = ZeroedGrads(grads)
    /\ stepsDone' = stepsDone + 1
    /\ pc' = "batch_head"
    /\ UNCHANGED <<arrayVars, schedulerVars, rng, params, applied, trainLocals, losses,
                   lastReport, sampleVars>>

TrainStep ==
    \/ DrawNoise \/ DrawTimesteps \/ AddNoiseCall \/ ModelPredict
    \/ ComputeLoss \/ Backward \/ LogLoss \/ OptimizerStep \/ ZeroGrad

\* ---------------------------------------------------------------- pipeline
\* image_pipe = DDPMPipeline(unet=model, scheduler=noise_scheduler);
\* image_pipe(): set_timesteps on the shared scheduler, one initial noise
\* draw, then one step per timestep.
RunPipeline ==
    /\ pc = "trained"
    /\ sch_timesteps' = SetTimesteps(PipelineSteps)
    /\ num_inference_steps' = PipelineSteps
    /\ rng' = rng + 1 + Cardinality({k \in 1..PipelineSteps :
                         StepDrawsNoise(SetTimesteps(PipelineSteps)[k])})
    /\ pc' = "sample_init"
    /\ UNCHANGED <<arrayVars, params, grads, applied, trainLocals, losses, stepsDone,
                   lastReport, sampleVars>>

\* the pipeline cells are not run
SkipPipeline ==
    /\ pc = "trained"
    /\ pc' = "sample_init"
    /\ UNCHANGED <<arrayVars, schedulerVars, rng, params, grads, applied, trainLocals,
                   losses, stepsDone, lastReport, sampleVars>>

\* ----------------------------------------------------------- sampling loop
\* sample = torch.randn(8, 3, 32, 32).to(device)
SampleInit ==
    /\ pc = "sample_init"
    /\ sample' = [kind |-> "noise", id |-> rng + 1]
    /\ rng' = rng + 1
    /\ i' = 0
    /\ pc' = "loop_head"
    /\ UNCHANGED <<arrayVars, schedulerVars, params, grads, applied, trainLocals, losses,
                   stepsDone, lastReport, residual, t, modelTs, stepTs, lastStep>>

\* the item enumerate(noise_scheduler.timesteps) yields at position n
IterItemReversed(seq, n) == seq[Len(seq) - n]
IterItem(seq, n) == seq[n + 1]

\* for i, t in enumerate(noise_scheduler.timesteps):
LoopNext ==
    /\ pc = "loop_head"
    /\ i < Len(sch_timesteps)
    /\ t' = IterItem(sch_timesteps, i)
    /\ i' = i + 1
    /\ pc' = "model_call"
    /\ UNCHANGED <<arrayVars, schedulerVars, rng, params, grads, applied, trainLocals,
                   losses, stepsDone, lastReport, sample, residual, modelTs,
                   stepTs, lastStep>>

\* the iterator is exhausted; show_images(sample)
LoopExit ==
    /\ pc = "loop_head"
    /\ i >= Len(sch_timesteps)
    /\ pc' = "done"
    /\ UNCHANGED <<arrayVars, schedulerVars, rng, params, grads, applied, trainLocals,
                   losses, stepsDone, lastReport, sampleVars>>

\* residual = model(sample, t).sample
ModelCall ==
    /\ pc = "model_call"
    /\ residual' = Model(sample, t, params)
    /\ modelTs' = Append(modelTs, t)
    /\ pc' = "step_call"
    /\ UNCHANGED <<arrayVars, schedulerVars, rng, params, grads, applied, trainLocals,
                   losses, stepsDone, lastReport, sample, i, t, stepTs, lastStep>>

\* the value the statement at "step_call" binds to sample
NextSampleKept(result, smp) == smp
NextSample(result, smp) == result.prev_sample

\* sample = noise_scheduler.step(residual, t, sample).prev_sample
StepCall ==
    /\ pc = "step_call"
    /\ LET r == Step(residual, t, sample, rng)
       IN  /\ sample' = NextSample(r, sample)
           /\ rng' = r.rng
           /\ lastStep' = [kind |-> "step", model_output |-> residual, t |-> t,
                           sample |-> sample, ret |-> r.prev_sample,
                           rngBefore |-> rng, rngAfter |-> r.rng]
    /\ stepTs' = Append(stepTs, t)
    /\ pc' = "loop_head"
    /\ UNCHANGED <<arrayVars, schedulerVars, params, grads, applied, trainLocals, losses,
                   stepsDone, lastReport, residual, i, t, modelTs>>

Next ==
    \/ ConstructTempLinear \/ ConstructTempCosine \/ PreviewAddNoise
    \/ TrainSetup
    \/ EpochStart \/ TrainingDone \/ NextBatch \/ EpochEnd
    \/ TrainStep
    \/ RunPipeline \/ SkipPipeline
    \/ SampleInit \/ LoopNext \/ LoopExit \/ ModelCall \/ StepCall

Spec == Init /\ [][Next]_vars

\* The notebook is one sequential thread: a statement that can run does run.
FairSpec == Spec /\ WF_vars(Next)

\* ------------------------------------------------------------- properties
\* the values of a scheduler's three arrays, wherever they are placed
ScheduleValues(arr) == <<arr.betas, arr.alphas, arr.alphas_cumprod>>

T == num_train_timesteps

InSampling == pc \in {"loop_head", "model_call", "step_call", "done"}

\* the timesteps in ts go down by one from T - 1
DescendsFromTop(ts) ==
    /\ Len(ts) >= 1 => ts[1] = T - 1
    /\ \A k \in 2..Len(ts) : ts[k] = ts[k - 1] - 1

\* C1: the sampling loop passes to the model and to scheduler.step the
\* timesteps T-1, T-2, ... in this order, each the previous one minus 1, the
\* same ones to both, and the last iteration's timestep is 0.
C1_DescendingTimesteps ==
    /\ DescendsFromTop(modelTs)
    /\ DescendsFromTop(stepTs)
    /\ stepTs = SubSeq(modelTs, 1, Len(stepTs))
    /\ Len(modelTs) - Len(stepTs) = (IF pc = "step_call" THEN 1 ELSE 0)
    /\ pc = "done" => Len(stepTs) >= 1 /\ stepTs[Len(stepTs)] = 0

\* the loop has finished without the pipeline cell having run
C1_Witness ==
    pc = "done" /\ num_inference_steps = 0 /\ stepTs = InitTimesteps

\* C2: the sampling loop terminates, and when it has, it has made exactly
\* num_train_timesteps model calls and as many scheduler.step calls, whether or
\* not the pipeline ran on the same scheduler before.
C2_TerminatesAfterTIterations ==
    /\ <>(pc = "done")
    /\ [](pc = "done" => Len(modelTs) = T /\ Len(stepTs) = T /\ i = T)

\* the loop has finished after the pipeline had reset the scheduler's timesteps
C2_Witness ==
    pc = "done" /\ num_inference_steps = PipelineSteps /\ Len(stepTs) = T

\* C3: the step at timestep 0 takes no draw from the generator and adds no
\* noise term: its result is made of its input sample and model output alone,
\* the generator stands where it stood before that step, and the loop ends
\* with that step.
C3_NoNoiseAtTerminalStep ==
    /\ (lastStep.kind = "step" /\ lastStep.t = 0) =>
          /\ lastStep.rngAfter = lastStep.rngBefore
          /\ rng = lastStep.rngBefore
          /\ lastStep.ret = [kind |-> "prev", from |-> lastStep.sample,
                             out |-> lastStep.model_output, t |-> 0, noise |-> 0]
          /\ sample = lastStep.ret
    /\ pc = "done" => lastStep.kind = "step" /\ lastStep.t = 0

\* the terminal step has run, after steps that did draw noise
C3_Witness ==
    /\ pc = "done" /\ lastStep.kind = "step" /\ lastStep.t = 0
    /\ lastStep.sample.kind = "prev" /\ lastStep.sample.noise > 0

\* the statements of the training-loop body after the timesteps are drawn
AfterDraw == {"add_noise", "model_pred", "loss", "backward", "log", "opt_step",
              "zero_grad"}

\* C5: a training step draws one timestep per sample of the batch, each in
\* 0..T-1 and each value of 0..T-1 possible for each sample; add_noise and the
\* model receive this same vector.
C5_TimestepPerSample ==
    /\ pc = "draw_timesteps" =>
          \A k \in 1..bs : \A v \in 0..(T - 1) :
              ENABLED (DrawTimesteps /\ timesteps'[k] = v)
    /\ pc \in AfterDraw =>
          /\ bs = clean_images.size
          /\ DOMAIN timesteps = 1..bs
          /\ \A k \in 1..bs : timesteps[k] \in 0..(T - 1)
    /\ pc \in AfterDraw \ {"add_noise"} =>
          /\ noisy_images.timesteps = timesteps
          /\ noisy_images.clean = clean_images
    /\ pc \in AfterDraw \ {"add_noise", "model_pred"} =>
          /\ noise_pred.t = timesteps
          /\ noise_pred.of = noisy_images

\* a full batch whose samples drew the two ends of the range
C5_Witness ==
    /\ pc = "loss" /\ bs = BATCH_SIZE
    /\ timesteps[1] = 0 /\ timesteps[bs] = T - 1
    /\ noise_pred.t = timesteps

\* the loss the k-th training step (1-based, over all epochs) computes
StepLoss(k) ==
    [kind |-> "loss", epoch |-> (k - 1) \div NumBatches,
     step |-> (k - 1) % NumBatches]

\* the log holds one entry per completed step, in step order
LogMatchesSteps ==
    /\ Len(losses) = stepsDone + (IF pc \in {"opt_step", "zero_grad"} THEN 1 ELSE 0)
    /\ \A k \in 1..Len(losses) : losses[k] = StepLoss(k)

\* the log only grows, by one entry at a time, at its end
LogAppendOnly ==
    /\ Len(losses') \in {Len(losses), Len(losses) + 1}
    /\ \A k \in 1..Len(losses) : losses'[k] = losses[k]

\* C6 as stated: one log entry per step, append-only, and a training step
\* changes nothing but the log and the parameters (with their gradients): it
\* leaves the global generator, the scheduler and all else alone.
C6_Original ==
    /\ []LogMatchesSteps
    /\ [][LogAppendOnly]_vars
    /\ [][TrainStep => UNCHANGED <<rng, schedulerVars, arrayVars, sampleVars,
                                   lastReport>>]_vars

\* C6 (amended): one log entry per step, in step order, append-only; a
\* training step changes the log, the parameters with their gradients, its own
\* working variables and the global generator (advanced by the noise draw and
\* the timestep draw only); add_noise may place the scheduler's alphas_cumprod
\* on the samples' device; the scheduler's timesteps and schedule values and
\* all else are left alone.
C6_LogAndFrame ==
    /\ []LogMatchesSteps
    /\ [][LogAppendOnly]_vars
    /\ [][TrainStep =>
            /\ UNCHANGED <<schedulerVars, temp_arrays, device, noisy_xb,
                           sampleVars, lastReport>>
            /\ ScheduleValues(sch_arrays') = ScheduleValues(sch_arrays)]_vars
    /\ [][TrainStep /\ rng' # rng =>
            pc \in {"draw_noise", "draw_timesteps"} /\ rng' = rng + 1]_vars

\* all training steps are done and logged
C6_Witness ==
    /\ pc = "trained" /\ stepsDone = NumEpochs * NumBatches
    /\ Len(losses) = stepsDone /\ rng > 0

\* the number of scheduler.step results a sample is built from
RECURSIVE Depth(_)
Depth(s) == IF s.kind = "prev" THEN 1 + Depth(s.from) ELSE 0

\* every step result in s was made from the sample before it and from the
\* model's prediction for that very sample at that very timestep
RECURSIVE ChainOK(_)
ChainOK(s) ==
    \/ s.kind = "noise"
    \/ /\ s.kind = "prev"
       /\ s.out.kind = "pred" /\ s.out.of = s.from /\ s.out.t = s.t
       /\ (s.from.kind = "prev" => s.from.t = s.t + 1)
       /\ ChainOK(s.from)

\* C10: the reverse process is a strict chain: step gets the current sample
\* and the model output computed from it at the same timestep; the next
\* iteration's sample is exactly what that step returned; the first sample is
\* the noise draw; the sample after n steps is built from exactly n steps.
C10_StrictChain ==
    InSampling =>
        /\ ChainOK(sample)
        /\ Depth(sample) = Len(stepTs)
        /\ (Len(stepTs) = 0 => sample.kind = "noise")
        /\ (pc = "step_call" => residual = Model(sample, t, params))
        /\ (Len(stepTs) > 0 =>
              /\ sample = lastStep.ret
              /\ lastStep.model_output.of = lastStep.sample
              /\ lastStep.model_output.t = lastStep.t
              /\ sample.from = lastStep.sample)

\* the model has been called on the result of an earlier step
C10_Witness ==
    /\ pc = "step_call" /\ Len(stepTs) >= 2
    /\ residual.of = lastStep.ret

\* the statements of the training-loop body from add_noise on, in source order
BodyOrder == <<"add_noise", "model_pred", "loss", "backward", "log", "opt_step",
               "zero_grad">>

\* what each statement of the body finds done when it is about to run
BodyProgress ==
    /\ pc = "model_pred" => noisy_images = AddNoise(clean_images, noise, timesteps)
    /\ pc = "loss" => noise_pred = Model(noisy_images, timesteps, params)
    /\ pc = "backward" =>
          /\ loss = StepLoss(stepsDone + 1)
          /\ grads = {} /\ Len(losses) = stepsDone /\ params = stepsDone
    /\ pc = "log" =>
          grads = {loss} /\ Len(losses) = stepsDone /\ params = stepsDone
    /\ pc = "opt_step" =>
          /\ grads = {loss} /\ params = stepsDone
          /\ Len(losses) = stepsDone + 1 /\ losses[Len(losses)] = loss
    /\ pc = "zero_grad" =>
          /\ params = stepsDone + 1
          /\ applied = {loss} /\ loss = StepLoss(stepsDone + 1)
    /\ pc \notin {"log", "opt_step", "zero_grad"} => grads = {}
    /\ pc # "zero_grad" => params = stepsDone
    /\ stepsDone > 0 => Cardinality(applied) = 1

\* C13: every batch runs add_noise, model prediction, loss, backward, log
\* append, optimizer.step, optimizer.zero_grad in this order, with one
\* optimizer.step per batch; the gradients are zero when a batch's backward
\* runs, so each optimizer.step applies the gradient of that batch's loss alone.
C13_BatchOrderNoAccumulation ==
    /\ []BodyProgress
    /\ [][\A k \in 1..(Len(BodyOrder) - 1) :
            pc = BodyOrder[k] => pc' = BodyOrder[k + 1]]_vars
    /\ [][pc = "zero_grad" => pc' = "batch_head" /\ stepsDone' = stepsDone + 1]_vars
    /\ [][params' # params => pc = "opt_step" /\ params' = params + 1]_vars

\* the optimizer has stepped for a batch of a later epoch
C13_Witness ==
    /\ pc = "zero_grad" /\ epoch >= 1 /\ stepsDone >= NumBatches
    /\ applied = {loss}

\* the statements from the training loop's start to the sampling loop's end
InRun == pc \notin {"temp_linear", "temp_cosine", "preview", "train_setup"}

\* C11: the scheduler's beta, alpha and cumulative-alpha values are those of
\* its construction: only the construction of a new scheduler at the head of
\* the training cell changes them; no add_noise call, step call, training
\* step or sampling iteration does, and every add_noise lookup returns the
\* constructed value for its timestep.
C11_ScheduleFixed ==
    /\ [][pc # "train_setup" =>
            /\ ScheduleValues(sch_arrays') = ScheduleValues(sch_arrays)
            /\ (temp_arrays.kind = "schedule" /\ pc # "temp_cosine" =>
                   ScheduleValues(temp_arrays') = ScheduleValues(temp_arrays))]_vars
    /\ [](InRun => ScheduleValues(sch_arrays) = ScheduleValues(CosineSchedule))
    /\ [](noisy_xb.kind = "noisy" =>
            \A k \in DOMAIN noisy_xb.acp :
                noisy_xb.acp[k]
                  = DefaultSchedule.alphas_cumprod[noisy_xb.timesteps[k] + 1])
    /\ [](noisy_images.kind = "noisy" =>
            \A k \in DOMAIN noisy_images.acp :
                noisy_images.acp[k]
                  = CosineSchedule.alphas_cumprod[noisy_images.timesteps[k] + 1])

\* training and sampling are over on a machine where add_noise has placed the
\* scheduler's alphas_cumprod on the accelerator
C11_Witness ==
    /\ pc = "done" /\ sch_arrays.device = "cuda"
    /\ noisy_images.kind = "noisy" /\ lastStep.kind = "step"
    /\ ScheduleValues(sch_arrays) = ScheduleValues(CosineSchedule)

\* a schedule of num_train_timesteps entries with every beta strictly between
\* 0 and 1, alpha = 1 - beta, the cumulative alpha the running product of the
\* alphas, and the cumulative alpha never increasing
ValidSchedule(arr) ==
    /\ DOMAIN arr.betas = 1..T
    /\ DOMAIN arr.alphas = 1..T
    /\ DOMAIN arr.alphas_cumprod = 1..T
    /\ \A k \in 1..T :
          /\ 0 < arr.betas[k] /\ arr.betas[k] < Scale
          /\ arr.alphas[k] = Scale - arr.betas[k]
    /\ arr.alphas_cumprod[1] = arr.alphas[1]
    /\ \A k \in 2..T :
          /\ arr.alphas_cumprod[k]
                = (arr.alphas_cumprod[k - 1] * arr.alphas[k]) \div Scale
          /\ arr.alphas_cumprod[k] <= arr.alphas_cumprod[k - 1]

\* C12: every scheduler the notebook constructs (linear with the default
\* bounds, linear with 0.001 / 0.004, squaredcos_cap_v2) has 0 < beta_t < 1
\* for all t and a cumulative alpha that is the running product of (1 - beta_i)
\* and never increases, over all its entries.
C12_SchedulesValid ==
    /\ ValidSchedule(sch_arrays)
    /\ temp_arrays.kind = "schedule" => ValidSchedule(temp_arrays)
    /\ pc = "temp_cosine" => ScheduleValues(temp_arrays) = ScheduleValues(TempLinearSchedule)
    /\ pc = "preview" =>
          /\ ScheduleValues(sch_arrays) = ScheduleValues(DefaultSchedule)
          /\ ScheduleValues(temp_arrays) = ScheduleValues(CosineSchedule)

\* the default linear scheduler and the cosine scheduler both stand, the
\* cosine one with its last beta at the cap
C12_Witness ==
    /\ pc = "preview"
    /\ sch_arrays.betas[1] = DefaultBetaStart /\ sch_arrays.betas[T] = DefaultBetaEnd
    /\ temp_arrays.betas[T] = MaxBeta
    /\ temp_arrays.alphas_cumprod[T] < temp_arrays.alphas_cumprod[1]

====
